---- MODULE Spec2Model ----
(***************************************************************************)
(* Session and conversation orchestration layer of the Stoic chat server:  *)
(* the in-memory rate limiter and the route handlers of the routes file,   *)
(* and the durable (DatabaseStorage) and ephemeral (GuestSessionStorage)   *)
(* stores of server/storage.ts.                                            *)
(*                                                                         *)
(* Time is Date.now() in milliseconds.  The clock advances by jumps drawn  *)
(* from small sets so that the window and TTL boundaries are crossed.      *)
(***************************************************************************)
EXTENDS Integers, Sequences, FiniteSets, TLC

VARIABLES
    now,          \* Date.now(), ms
    rateLimiter,  \* routes: const rateLimiter = new Map()   key -> timestamps
    admitted,     \* history: per (key, route) the times of the accepted requests
    rlCount,      \* history: number of requests that reached a rateLimit middleware
    ticks,        \* history: number of clock jumps taken
    db,           \* the conversations and messages tables behind DatabaseStorage
    guest,        \* the three Maps of GuestSessionStorage
    sends,        \* the executions of POST /api/conversations/:id/messages
    genCount,     \* number of generateId() calls made so far
    lastInsertBy, \* the send whose insert into messages read db.clock last, or 0
    actors,       \* the identities that make requests in this behaviour
    sendCap,      \* the number of send-message requests made in this behaviour
    ctx,          \* one building of a context window: the list given and the result
    mw            \* the request passing through the middleware of the send route

rlVars == <<rateLimiter, admitted, rlCount>>

storeVars == <<db, guest, sends, genCount, lastInsertBy, actors, sendCap, ctx, mw>>

vars == <<now, ticks, rateLimiter, admitted, rlCount, db, guest, sends, genCount,
          lastInsertBy, actors, sendCap, ctx, mw>>

----------------------------------------------------------------------------
(* Generic helpers                                                         *)

RECURSIVE SelectSeqBy(_, _)
\* Array.prototype.filter with the predicate given as a set of kept values
SelectSeqBy(s, keep) ==
    IF s = <<>> THEN <<>>
    ELSE IF Head(s) \in keep THEN <<Head(s)>> \o SelectSeqBy(Tail(s), keep)
         ELSE SelectSeqBy(Tail(s), keep)

\* Map.prototype.set
MapSet(m, k, v) == [x \in (DOMAIN m) \cup {k} |-> IF x = k THEN v ELSE m[x]]

\* Map.prototype.delete
MapDelete(m, k) == [x \in (DOMAIN m) \ {k} |-> m[x]]

\* an empty Map
EmptyMap == [x \in {} |-> <<>>]

----------------------------------------------------------------------------
(* Rate limiter                                                            *)

ClientKeys == {"ip1", "ip2"}

RouteClasses == {"register", "login", "send"}

RegisterMax == 5
LoginMax == 10
SendMax == 30

\* 15 * 60 * 100000 ms, as the register route is configured
RegisterWindowMs == 90000000
\* 15 * 60 * 1000 ms
LoginWindowMs == 900000
\* 60 * 1000 ms
SendWindowMs == 60000

maxRequestsOf(route) ==
    CASE route = "register" -> RegisterMax
      [] route = "login" -> LoginMax
      [] route = "send" -> SendMax

windowMsOf(route) ==
    CASE route = "register" -> RegisterWindowMs
      [] route = "login" -> LoginWindowMs
      [] route = "send" -> SendWindowMs

\* bounds of the rate-limiter exploration
RLMaxRequests == 7
RLMaxTicks == 2
RLTickSteps == {1, RegisterWindowMs - 1}

\* the timestamps of rateLimiter.get(key) that survive
\* .filter(time => time > windowStart)
FilterWindow(ts, windowStart) ==
    SelectSeqBy(ts, {t \in {ts[i] : i \in DOMAIN ts} : t > windowStart})

\* a limiter that calls next() without recording the request
rateLimitNoRecord(rl, key, t, maxRequests, windowMs) ==
    LET windowStart == t - windowMs
        rl1 == IF key \in DOMAIN rl THEN rl ELSE MapSet(rl, key, <<>>)
        requests == FilterWindow(rl1[key], windowStart)
    IN  IF Len(requests) >= maxRequests
        THEN [rl |-> rl1, ok |-> FALSE, status |-> 429]
        ELSE [rl |-> MapSet(rl1, key, requests), ok |-> TRUE, status |-> 200]

\* rateLimit(maxRequests, windowMs)(req, res, next) with req.ip = key at time t:
\* the map afterwards and whether next() was called (otherwise 429)
rateLimit(rl, key, t, maxRequests, windowMs) ==
    LET windowStart == t - windowMs
        rl1 == IF key \in DOMAIN rl THEN rl ELSE MapSet(rl, key, <<>>)
        requests == FilterWindow(rl1[key], windowStart)
    IN  IF Len(requests) >= maxRequests
        THEN [rl |-> rl1, ok |-> FALSE, status |-> 429]
        ELSE [rl |-> MapSet(rl1, key, Append(requests, t)), ok |-> TRUE, status |-> 200]

\* one request of client key on a route class reaches that route's limiter
RateLimitedRequest(key, route) ==
    /\ rlCount < RLMaxRequests
    /\ LET r == rateLimit(rateLimiter, key, now, maxRequestsOf(route), windowMsOf(route))
       IN  /\ rateLimiter' = r.rl
           /\ admitted' = IF r.ok
                          THEN [admitted EXCEPT ![key][route] = Append(@, now)]
                          ELSE admitted
    /\ rlCount' = rlCount + 1
    /\ UNCHANGED <<now, ticks, storeVars>>

RLTick(d) ==
    /\ ticks < RLMaxTicks
    /\ now' = now + d
    /\ ticks' = ticks + 1
    /\ UNCHANGED <<rlVars, storeVars>>

RLNext ==
    \/ \E k \in ClientKeys, r \in RouteClasses : RateLimitedRequest(k, r)
    \/ \E d \in RLTickSteps : RLTick(d)

----------------------------------------------------------------------------
(* Values shared by the two stores                                         *)

\* users.id of the registered users (rows of the users table)
Users == {"u1", "u2"}

\* req.session.id of the guest sessions
Sessions == {"s1", "s2"}

\* private readonly SESSION_TIMEOUT = 24 * 60 * 60 * 1000
SESSION_TIMEOUT == 86400000

\* title || 'New Conversation'
DefaultTitle == "New Conversation"

\* T | undefined, as a sequence of at most one element
Undefined == <<>>
Some(x) == <<x>>

\* the elements of a sequence
Range(s) == {s[i] : i \in DOMAIN s}

\* all orders of the rows of set S that an ORDER BY created_at (ascending)
\* may return: the order of rows with equal created_at is not determined
OrderByCreatedAt(S) ==
    LET n == Cardinality(S)
    IN  {s \in [1..n -> S] :
            /\ \A i, j \in 1..n : i # j => s[i] # s[j]
            /\ \A i, j \in 1..n : i < j => s[i].createdAt <= s[j].createdAt}

\* ... ORDER BY created_at DESC
OrderByCreatedAtDesc(S) ==
    LET n == Cardinality(S)
    IN  {s \in [1..n -> S] :
            /\ \A i, j \in 1..n : i # j => s[i] # s[j]
            /\ \A i, j \in 1..n : i < j => s[i].createdAt >= s[j].createdAt}

RECURSIVE InsertSorted(_, _)
\* m placed after every element whose createdAt is not greater
InsertSorted(sorted, m) ==
    IF sorted = <<>> THEN <<m>>
    ELSE IF Head(sorted).createdAt <= m.createdAt
         THEN <<Head(sorted)>> \o InsertSorted(Tail(sorted), m)
         ELSE <<m>> \o sorted

RECURSIVE SortByCreatedAt(_)
\* Array.prototype.sort((a, b) => a.createdAt.getTime() - b.createdAt.getTime()):
\* a stable sort
SortByCreatedAt(s) ==
    IF s = <<>> THEN <<>>
    ELSE InsertSorted(SortByCreatedAt(SubSeq(s, 1, Len(s) - 1)), s[Len(s)])

----------------------------------------------------------------------------
(* DatabaseStorage: d = [conversations, messages, convSeq, msgSeq, clock],  *)
(* the two tables as sets of rows, the last values of their bigserial ids   *)
(* and the last value NOW() gave to a created_at.  The database's clock is  *)
(* its own: created_at values are compared with each other only, so they    *)
(* are numbered 1, 2, ... in the order NOW() returned them.                 *)

EmptyDb == [conversations |-> {}, messages |-> {}, convSeq |-> 0, msgSeq |-> 0, clock |-> 0]

\* DatabaseStorage.getConversation(id, userId)
getConversation(d, id, userId) ==
    LET rows == {c \in d.conversations : c.id = id /\ c.userId = userId}
    IN  IF rows = {} THEN Undefined ELSE Some(CHOOSE c \in rows : TRUE)

\* DatabaseStorage.getUserConversations(userId): the possible results
getUserConversations(d, userId) ==
    OrderByCreatedAtDesc({c \in d.conversations : c.userId = userId})

\* DatabaseStorage.createConversation({userId, title}) at database time t
createConversation(d, t, userId, title) ==
    LET row == [id |-> d.convSeq + 1, userId |-> userId, title |-> title, createdAt |-> t]
    IN  [d |-> [d EXCEPT !.conversations = @ \cup {row}, !.convSeq = @ + 1, !.clock = t],
         ret |-> row]

\* DatabaseStorage.updateConversationTitle(id, userId, title)
updateConversationTitle(d, id, userId, title) ==
    [d EXCEPT !.conversations =
        {IF c.id = id /\ c.userId = userId THEN [c EXCEPT !.title = title] ELSE c : c \in @}]

\* a deleteConversation whose where clause leaves out the userId
deleteConversationById(d, id, userId) ==
    LET gone == {c \in d.conversations : c.id = id}
    IN  [d EXCEPT !.conversations = @ \ gone,
                  !.messages = {m \in @ : m.conversationId \notin {c.id : c \in gone}}]

\* DatabaseStorage.deleteConversation(id, userId); messages.conversation_id
\* references conversations.id ON DELETE CASCADE
deleteConversation(d, id, userId) ==
    LET gone == {c \in d.conversations : c.id = id /\ c.userId = userId}
    IN  [d EXCEPT !.conversations = @ \ gone,
                  !.messages = {m \in @ : m.conversationId \notin {c.id : c \in gone}}]

\* the select of DatabaseStorage.getConversationMessages: the possible results
selectConversationMessages(d, conversationId) ==
    OrderByCreatedAt({m \in d.messages : m.conversationId = conversationId})

\* DatabaseStorage.getConversationMessages(conversationId, userId):
\* throws Error("Conversation not found") or returns one of the possible results
getConversationMessages(d, conversationId, userId) ==
    IF getConversation(d, conversationId, userId) = Undefined
    THEN {[threw |-> TRUE, ret |-> <<>>]}
    ELSE {[threw |-> FALSE, ret |-> l] : l \in selectConversationMessages(d, conversationId)}

\* DatabaseStorage.createMessage({conversationId, role, content, sources}) at
\* database time t: the insert fails (throws) when conversation_id references
\* no row of conversations
createMessage(d, t, conversationId, role, content, sources) ==
    LET row == [id |-> d.msgSeq + 1, conversationId |-> conversationId, role |-> role,
                content |-> content, sources |-> sources, createdAt |-> t]
    IN  IF \E c \in d.conversations : c.id = conversationId
        THEN [threw |-> FALSE, ret |-> Some(row),
              d |-> [d EXCEPT !.messages = @ \cup {row}, !.msgSeq = @ + 1, !.clock = t]]
        ELSE [threw |-> TRUE, ret |-> Undefined,
              d |-> [d EXCEPT !.msgSeq = @ + 1, !.clock = t]]

\* DatabaseStorage.deleteMessage(id, conversationId, userId)
deleteMessage(d, id, conversationId, userId) ==
    IF getConversation(d, conversationId, userId) = Undefined
    THEN [threw |-> TRUE, d |-> d]
    ELSE [threw |-> FALSE,
          d |-> [d EXCEPT !.messages =
                    {m \in @ : ~(m.id = id /\ m.conversationId = conversationId)}]]

----------------------------------------------------------------------------
(* GuestSessionStorage: g = [conversations, messages, sessionTimestamps],   *)
(* the three Maps keyed by sessionId                                        *)

EmptyGuest == [conversations |-> EmptyMap, messages |-> EmptyMap, sessionTimestamps |-> EmptyMap]

\* map.get(k) || []
GetOrEmpty(m, k) == IF k \in DOMAIN m THEN m[k] ELSE <<>>

\* an expiry test that takes a lease exactly SESSION_TIMEOUT old as expired
isSessionExpiredAtTimeout(g, t, sessionId) ==
    IF sessionId \notin DOMAIN g.sessionTimestamps THEN TRUE
    ELSE t - g.sessionTimestamps[sessionId] >= SESSION_TIMEOUT

\* GuestSessionStorage.isSessionExpired(sessionId) at time t
isSessionExpired(g, t, sessionId) ==
    IF sessionId \notin DOMAIN g.sessionTimestamps THEN TRUE
    ELSE t - g.sessionTimestamps[sessionId] > SESSION_TIMEOUT

\* GuestSessionStorage.touchSession(sessionId) at time t
touchSession(g, t, sessionId) ==
    [g EXCEPT !.sessionTimestamps = MapSet(@, sessionId, t)]

\* GuestSessionStorage.cleanupSession(sessionId)
cleanupSession(g, sessionId) ==
    [conversations |-> MapDelete(g.conversations, sessionId),
     messages |-> MapDelete(g.messages, sessionId),
     sessionTimestamps |-> MapDelete(g.sessionTimestamps, sessionId)]

\* GuestSessionStorage.getGuestConversations(sessionId)
getGuestConversations(g, t, sessionId) ==
    IF isSessionExpired(g, t, sessionId)
    THEN [g |-> cleanupSession(g, sessionId), ret |-> <<>>]
    ELSE [g |-> touchSession(g, t, sessionId), ret |-> GetOrEmpty(g.conversations, sessionId)]

\* GuestSessionStorage.createGuestConversation(sessionId, title), with id the
\* value of generateId()
createGuestConversation(g, t, sessionId, title, id) ==
    LET g1 == touchSession(g, t, sessionId)
        conversation == [id |-> id, sessionId |-> sessionId, title |-> title, createdAt |-> t]
        sessionConversations == <<conversation>> \o GetOrEmpty(g1.conversations, sessionId)
    IN  [g |-> [g1 EXCEPT !.conversations = MapSet(@, sessionId, sessionConversations)],
         ret |-> conversation]

\* conversations.find(c => c.id === id)
FindById(convs, id) ==
    IF \E i \in DOMAIN convs : convs[i].id = id
    THEN Some(convs[CHOOSE i \in DOMAIN convs :
                        convs[i].id = id /\ \A j \in 1..(i - 1) : convs[j].id # id])
    ELSE Undefined

\* GuestSessionStorage.getGuestConversation(id, sessionId)
getGuestConversation(g, t, id, sessionId) ==
    IF isSessionExpired(g, t, sessionId)
    THEN [g |-> cleanupSession(g, sessionId), ret |-> Undefined]
    ELSE [g |-> touchSession(g, t, sessionId),
          ret |-> FindById(GetOrEmpty(g.conversations, sessionId), id)]

\* GuestSessionStorage.updateGuestConversationTitle(id, sessionId, title)
updateGuestConversationTitle(g, t, id, sessionId, title) ==
    IF isSessionExpired(g, t, sessionId) THEN cleanupSession(g, sessionId)
    ELSE LET g1 == touchSession(g, t, sessionId)
             conversations == GetOrEmpty(g1.conversations, sessionId)
             found == FindById(conversations, id)
         IN  IF found = Undefined THEN g1
             ELSE LET k == CHOOSE i \in DOMAIN conversations :
                                conversations[i].id = id
                                /\ \A j \in 1..(i - 1) : conversations[j].id # id
                  IN  [g1 EXCEPT !.conversations =
                          MapSet(@, sessionId, [conversations EXCEPT ![k].title = title])]

\* a deleteGuestConversation that leaves the messages of the conversation
deleteGuestConversationOnly(g, t, id, sessionId) ==
    IF isSessionExpired(g, t, sessionId) THEN cleanupSession(g, sessionId)
    ELSE LET conversations == GetOrEmpty(g.conversations, sessionId)
             filtered == SelectSeq(conversations, LAMBDA c : c.id # id)
         IN  [g EXCEPT !.conversations = MapSet(@, sessionId, filtered),
                       !.messages = MapSet(@, sessionId, GetOrEmpty(g.messages, sessionId))]

\* GuestSessionStorage.deleteGuestConversation(id, sessionId)
deleteGuestConversation(g, t, id, sessionId) ==
    IF isSessionExpired(g, t, sessionId) THEN cleanupSession(g, sessionId)
    ELSE LET conversations == GetOrEmpty(g.conversations, sessionId)
             filtered == SelectSeq(conversations, LAMBDA c : c.id # id)
             messages == GetOrEmpty(g.messages, sessionId)
             filteredMessages == SelectSeq(messages, LAMBDA m : m.conversationId # id)
         IN  [g EXCEPT !.conversations = MapSet(@, sessionId, filtered),
                       !.messages = MapSet(@, sessionId, filteredMessages)]

\* GuestSessionStorage.getGuestConversationMessages(conversationId, sessionId)
getGuestConversationMessages(g, t, conversationId, sessionId) ==
    IF isSessionExpired(g, t, sessionId)
    THEN [g |-> cleanupSession(g, sessionId), ret |-> <<>>]
    ELSE [g |-> touchSession(g, t, sessionId),
          ret |-> SortByCreatedAt(SelectSeq(GetOrEmpty(g.messages, sessionId),
                                            LAMBDA m : m.conversationId = conversationId))]

\* a createGuestMessage that stores the new message alone instead of
\* pushing it onto the session's list
createGuestMessageAlone(g, t, conversationId, sessionId, role, content, sources, id) ==
    LET g1 == touchSession(g, t, sessionId)
        message == [id |-> id, conversationId |-> conversationId, role |-> role,
                    content |-> content, sources |-> sources,
                    responseType |-> "general", createdAt |-> t]
    IN  [g |-> [g1 EXCEPT !.messages = MapSet(@, sessionId, <<message>>)],
         ret |-> message]

\* GuestSessionStorage.createGuestMessage(conversationId, sessionId, role,
\* content, sources), with id the value of generateId()
createGuestMessage(g, t, conversationId, sessionId, role, content, sources, id) ==
    LET g1 == touchSession(g, t, sessionId)
        message == [id |-> id, conversationId |-> conversationId, role |-> role,
                    content |-> content, sources |-> sources,
                    responseType |-> "general", createdAt |-> t]
        sessionMessages == Append(GetOrEmpty(g1.messages, sessionId), message)
    IN  [g |-> [g1 EXCEPT !.messages = MapSet(@, sessionId, sessionMessages)],
         ret |-> message]

\* GuestSessionStorage.deleteGuestMessage(id, conversationId, sessionId)
deleteGuestMessage(g, id, conversationId, sessionId) ==
    LET messages == GetOrEmpty(g.messages, sessionId)
        filtered == SelectSeq(messages,
                        LAMBDA m : ~(m.id = id /\ m.conversationId = conversationId))
    IN  [g EXCEPT !.messages = MapSet(@, sessionId, filtered)]

RECURSIVE CleanupEach(_, _, _)
\* the loop of cleanupExpiredSessions over the session ids still to visit
CleanupEach(g, t, todo) ==
    IF todo = {} THEN g
    ELSE LET sessionId == CHOOSE x \in todo : TRUE
             g1 == IF isSessionExpired(g, t, sessionId)
                   THEN cleanupSession(g, sessionId) ELSE g
         IN  CleanupEach(g1, t, todo \ {sessionId})

\* a cleanup that removes nothing
cleanupNoSession(g, t) == g

\* a cleanup that removes every session that has a lease, expired or not
cleanupEverySession(g, t) ==
    [conversations |-> [k \in DOMAIN g.conversations \ DOMAIN g.sessionTimestamps
                            |-> g.conversations[k]],
     messages |-> [k \in DOMAIN g.messages \ DOMAIN g.sessionTimestamps |-> g.messages[k]],
     sessionTimestamps |-> EmptyMap]

\* GuestSessionStorage.cleanupExpiredSessions() at time t
cleanupExpiredSessions(g, t) == CleanupEach(g, t, DOMAIN g.sessionTimestamps)

----------------------------------------------------------------------------
(* Requests                                                                *)

\* the resolved identity of a request: req.isGuest with req.sessionId, or
\* req.user.id
Identity(isGuest, id) == [guest |-> isGuest, id |-> id]
Identities == {Identity(FALSE, u) : u \in Users} \cup {Identity(TRUE, x) : x \in Sessions}

\* generateId(): the n-th identifier drawn.  The identifiers are opaque and
\* only compared for equality, so the draws are named in the order made.
GenIds == <<"g1", "g2", "g3", "g4", "g5", "g6", "g7", "g8", "g9", "g10", "g11", "g12">>
generateId(n) == GenIds[n + 1]

\* parseInt(conversationId) of the path parameters used: NaN for the others
NaN == -1
NumericParams == <<"1", "2", "3", "4">>
parseInt(p) ==
    IF \E i \in DOMAIN NumericParams : NumericParams[i] = p
    THEN CHOOSE i \in DOMAIN NumericParams : NumericParams[i] = p
    ELSE NaN

\* req.body.content: its typeof and its characters
Content(type, chars) == [type |-> type, chars |-> chars]
Contents ==
    { Content("undefined", <<>>), Content("number", <<"5">>),
      Content("string", <<>>), Content("string", <<" ", "\t">>),
      Content("string", <<" ", "a", " ">>) }

\* white space and line terminators, which trim() strips
WhiteSpace == {" ", "\t", "\n"}

RECURSIVE TrimStart(_)
TrimStart(cs) == IF cs # <<>> /\ Head(cs) \in WhiteSpace THEN TrimStart(Tail(cs)) ELSE cs

RECURSIVE TrimEnd(_)
TrimEnd(cs) ==
    IF cs # <<>> /\ cs[Len(cs)] \in WhiteSpace THEN TrimEnd(SubSeq(cs, 1, Len(cs) - 1)) ELSE cs

\* String.prototype.trim
Trim(cs) == TrimEnd(TrimStart(cs))

\* !content
Falsy(c) ==
    \/ c.type = "undefined"
    \/ c.type = "number" /\ c.chars = <<"0">>
    \/ c.type = "string" /\ c.chars = <<>>

\* a validation that leaves out the trim()
ContentInvalidUntrimmed(c) ==
    \/ Falsy(c)
    \/ c.type # "string"
    \/ Len(c.chars) = 0

\* !content || typeof content !== 'string' || content.trim().length === 0
ContentInvalid(c) ==
    \/ Falsy(c)
    \/ c.type # "string"
    \/ Len(Trim(c.chars)) = 0

\* a slice from the start of the list instead of its end
SliceFirst(s, k) == SubSeq(s, 1, IF Len(s) > k THEN k ELSE Len(s))

\* recentMessages.slice(-6)
ContextSize == 6
SliceLast(s, k) == SubSeq(s, IF Len(s) > k THEN Len(s) - k + 1 ELSE 1, Len(s))

\* recentMessages.slice(-6).map(msg => ({ role: msg.role, content: msg.content }))
contextMessages(recentMessages) ==
    LET sl == SliceLast(recentMessages, ContextSize)
    IN  [i \in 1..Len(sl) |-> [role |-> sl[i].role, content |-> sl[i].content]]

\* the message lists that getConversationMessages may return, up to
\* MaxCtxLen messages long: the i-th message is a user's or an assistant's
MaxCtxLen == 10
Numerals == <<"1", "2", "3", "4", "5", "6", "7", "8", "9", "10", "11", "12">>
StoredMessage(i, role) ==
    [id |-> i, conversationId |-> 1, role |-> role, content |-> <<role, Numerals[i]>>,
     sources |-> IF role = "assistant" THEN Some(<<"c1", "c2">>) ELSE Undefined,
     createdAt |-> i]
MessageLists ==
    UNION {{[i \in 1..L |-> StoredMessage(i, f[i])] : f \in [1..L -> {"user", "assistant"}]}
           : L \in 0..MaxCtxLen}

\* no context window built yet
NoContext == [recentMessages |-> <<>>, contextMessages |-> Undefined]

\* what the generation service may do with the request: answer, refuse the
\* connection, or answer with a non-success status
RagAnswer == [answer |-> <<"z">>, sources |-> <<"c1", "c2">>]
RagOutcomes == {"ok", "connect", "status"}

\* one execution of the send-message handler: where it stands (pc) and its
\* locals; status 0 while no response has been sent
IdleSend ==
    [pc |-> "idle", who |-> Identity(TRUE, ""), conv |-> "", content |-> Content("undefined", <<>>),
     userMessage |-> Undefined, recentMessages |-> <<>>, ragRequest |-> <<>>,
     upstream |-> "", assistantMessage |-> Undefined, status |-> 0, body |-> "",
     trace |-> <<>>]

Respond(slot, status, body) == [slot EXCEPT !.pc = "done", !.status = status, !.body = body]

Step(slot, label) == [slot EXCEPT !.trace = Append(@, label)]

\* body of the request to ${ragServiceUrl}/chat
RagRequest(content, recentMessages) ==
    [query |-> Trim(content.chars),
     conversation_context |-> contextMessages(recentMessages),
     top_k |-> 3]

----------------------------------------------------------------------------
(* Identity resolution                                                     *)

\* a bearer token: whether its signature verifies with JWT_SECRET, whether
\* it has expired, and the userId of its payload
Token(sig, expired, userId) == [sig |-> sig, expired |-> expired, userId |-> userId]
Tokens ==
    { Token("good", FALSE, "u1"), Token("good", FALSE, "u9"),
      Token("bad", FALSE, "u1"), Token("good", TRUE, "u1") }

\* req.headers['authorization'] as the parts between its spaces; Undefined
\* when the request has no such header
AuthHeaders == {Undefined, <<"Bearer">>} \cup {<<"Bearer", tok>> : tok \in Tokens}

\* authHeader && authHeader.split(' ')[1]
headerToken(authHeader) ==
    IF authHeader = Undefined THEN Undefined
    ELSE IF Len(authHeader) >= 2 THEN Some(authHeader[2]) ELSE Undefined

\* jwt.verify(token, secret): throws, or returns the payload
jwtVerify(token) ==
    IF token.sig = "good" /\ ~token.expired
    THEN [threw |-> FALSE, decoded |-> [userId |-> token.userId]]
    ELSE [threw |-> TRUE, decoded |-> [userId |-> ""]]

\* DatabaseStorage.getUser(id)
getUser(id) == IF id \in Users THEN Some([id |-> id]) ELSE Undefined

\* req.session: Undefined, or the session with its id
ReqSessions == {Undefined} \cup {Some(x) : x \in Sessions}

\* an authentication that answers 401 when the token does not verify
\* instead of falling through to the guest session
authenticateStrict(authHeader, session) ==
    LET token == headerToken(authHeader)
        verified == jwtVerify(token[1])
        found == getUser(verified.decoded.userId)
    IN  IF token # Undefined /\ verified.threw
        THEN [kind |-> "401", who |-> Undefined, reads |-> <<>>]
        ELSE IF token # Undefined /\ found # Undefined
        THEN [kind |-> "user", who |-> Some(Identity(FALSE, found[1].id)),
              reads |-> <<"users">>]
        ELSE IF session # Undefined
        THEN [kind |-> "guest", who |-> Some(Identity(TRUE, session[1])),
              reads |-> IF token # Undefined THEN <<"users">> ELSE <<>>]
        ELSE [kind |-> "401", who |-> Undefined,
              reads |-> IF token # Undefined THEN <<"users">> ELSE <<>>]

\* authenticateUserOrGuest: what it resolves the request to (next() as a
\* registered user, next() as a guest, or 401) and the stores it read
authenticateUserOrGuest(authHeader, session) ==
    LET token == headerToken(authHeader)
        verified == jwtVerify(token[1])
        found == getUser(verified.decoded.userId)
        reads == IF token # Undefined /\ ~verified.threw THEN <<"users">> ELSE <<>>
    IN  IF token # Undefined /\ ~verified.threw /\ found # Undefined
        THEN [kind |-> "user", who |-> Some(Identity(FALSE, found[1].id)), reads |-> reads]
        ELSE IF session # Undefined
        THEN [kind |-> "guest", who |-> Some(Identity(TRUE, session[1])), reads |-> reads]
        ELSE [kind |-> "401", who |-> Undefined, reads |-> reads]

----------------------------------------------------------------------------
(* The middleware of POST /api/conversations/:id/messages:                 *)
(* authenticateUserOrGuest, rateLimit(30, 60 * 1000), then the handler     *)

\* no request in the middleware; status 0 while no response has been sent
NoRequest ==
    [pc |-> "idle", authHeader |-> Undefined, session |-> Undefined, ip |-> "ip1",
     who |-> Undefined, status |-> 0, reads |-> <<>>, trace |-> <<>>, served |-> 0]

\* requests that pass through the middleware in one behaviour
MwMaxRequests == 31

\* a request arrives on the send route
MwArrive(authHeader, session) ==
    /\ mw.pc \in {"idle", "done"}
    /\ mw.served < MwMaxRequests
    /\ mw' = [NoRequest EXCEPT !.pc = "authenticate", !.authHeader = authHeader,
                               !.session = session, !.served = mw.served + 1]
    /\ UNCHANGED <<now, ticks, rlVars, db, guest, sends, genCount, lastInsertBy,
                   actors, sendCap, ctx>>

\* authenticateUserOrGuest runs
MwAuthenticate ==
    /\ mw.pc = "authenticate"
    /\ LET a == authenticateUserOrGuest(mw.authHeader, mw.session)
       IN  mw' = [mw EXCEPT !.trace = Append(@, "authenticateUserOrGuest"),
                            !.reads = @ \o a.reads,
                            !.who = a.who,
                            !.pc = IF a.kind = "401" THEN "done" ELSE "rateLimit",
                            !.status = IF a.kind = "401" THEN 401 ELSE 0]
    /\ UNCHANGED <<now, ticks, rlVars, db, guest, sends, genCount, lastInsertBy,
                   actors, sendCap, ctx>>

\* rateLimit(30, 60 * 1000) runs; when it calls next() the handler takes the
\* request over
MwRateLimit ==
    /\ mw.pc = "rateLimit"
    /\ LET r == rateLimit(rateLimiter, mw.ip, now, SendMax, SendWindowMs)
       IN  /\ rateLimiter' = r.rl
           /\ mw' = [mw EXCEPT !.trace = Append(@, "rateLimit"),
                                !.pc = "done",
                                !.status = IF r.ok THEN 0 ELSE 429]
    /\ UNCHANGED <<now, ticks, admitted, rlCount, db, guest, sends, genCount,
                   lastInsertBy, actors, sendCap, ctx>>

----------------------------------------------------------------------------
(* POST /api/conversations/:id/messages                                    *)
(*                                                                         *)
(* The guest store's methods are synchronous, so the handler of a guest    *)
(* runs from its first statement to the fetch without another request or   *)
(* the cleanup timer in between, and again from the fetch's result to the  *)
(* response.  Each database call of a registered user's handler is a point *)
(* where other requests run.  A step of the model is one database call (or *)
(* the fetch's result) together with the statements that follow it up to   *)
(* the next call.                                                          *)

\* a guest's handler from its first statement to the fetch; slot holds the
\* request (who, conv, content), n is the number of generateId() calls so far
sendStartGuest(g, t, slot, n) ==
    IF ContentInvalid(slot.content)
    THEN [g |-> g, n |-> n,
          slot |-> Respond(Step(slot, "invalid"), 400, "Message content is required")]
    ELSE
    LET s1 == Step(slot, "validate")
        found == getGuestConversation(g, t, slot.conv, slot.who.id)
    IN  IF found.ret = Undefined
        THEN [g |-> found.g, n |-> n,
              slot |-> Respond(Step(s1, "notOwner"), 404, "Conversation not found")]
        ELSE
        LET s2 == Step(s1, "own")
            saved == createGuestMessage(found.g, t, slot.conv, slot.who.id, "user",
                                        Trim(slot.content.chars), Undefined, generateId(n))
            s3 == [Step(s2, "persistUser") EXCEPT !.userMessage = Some(saved.ret)]
            listed == getGuestConversationMessages(saved.g, t, slot.conv, slot.who.id)
            s4 == [Step(s3, "list") EXCEPT !.recentMessages = listed.ret]
            s5 == [Step(s4, "generate") EXCEPT
                        !.ragRequest = Append(@, RagRequest(slot.content, listed.ret)),
                        !.pc = "fetch"]
        IN  [g |-> listed.g, n |-> n + 1, slot |-> s5]

\* a guest's handler from the fetch's result to the response
sendFinishGuest(g, t, slot, outcome, n) ==
    LET s1 == [slot EXCEPT !.upstream = outcome]
    IN  IF outcome # "ok"
        THEN [g |-> g, n |-> n, slot |-> Respond(s1, 500, "Failed to process message")]
        ELSE
        LET saved == createGuestMessage(g, t, slot.conv, slot.who.id, "assistant",
                                        RagAnswer.answer, Some(RagAnswer.sources),
                                        generateId(n))
            s2 == [Step(s1, "persistAssistant") EXCEPT !.assistantMessage = Some(saved.ret)]
        IN  [g |-> saved.g, n |-> n + 1, slot |-> Respond(s2, 200, "ok")]

\* a handler that inserts the user's message before it looks the
\* conversation up
sendStartUserInsertFirst(d, slot) ==
    IF ContentInvalid(slot.content)
    THEN Respond(Step(slot, "invalid"), 400, "Message content is required")
    ELSE [Step(slot, "validate") EXCEPT !.pc = "createUserMessage"]

\* a registered user's handler from its first statement to the result of
\* storage.getConversation
sendStartUser(d, slot) ==
    IF ContentInvalid(slot.content)
    THEN Respond(Step(slot, "invalid"), 400, "Message content is required")
    ELSE
    LET s1 == Step(slot, "validate")
        numericId == parseInt(slot.conv)
    IN  IF numericId = NaN
        THEN Respond(Step(s1, "badId"), 400, "Invalid conversation ID")
        ELSE IF getConversation(d, numericId, slot.who.id) = Undefined
        THEN Respond(Step(s1, "notOwner"), 404, "Conversation not found")
        ELSE [Step(s1, "own") EXCEPT !.pc = "createUserMessage"]

\* ... the insert of the user's message
sendCreateUserMessage(d, t, slot) ==
    LET saved == createMessage(d, t, parseInt(slot.conv), "user",
                               Trim(slot.content.chars), Undefined)
    IN  IF saved.threw
        THEN [d |-> saved.d, slot |-> Respond(slot, 500, "Failed to process message")]
        ELSE [d |-> saved.d,
              slot |-> [Step(slot, "persistUser") EXCEPT !.userMessage = saved.ret,
                                                         !.pc = "getMessages"]]

\* ... storage.getConversationMessages (its two statements taken as one
\* step), the context and the start of the fetch: the possible results
sendGetMessages(d, slot) ==
    {IF listed.threw
     THEN Respond(slot, 500, "Failed to process message")
     ELSE [Step(Step(slot, "list"), "generate") EXCEPT
                !.recentMessages = listed.ret,
                !.ragRequest = Append(@, RagRequest(slot.content, listed.ret)),
                !.pc = "fetch"]
     : listed \in getConversationMessages(d, parseInt(slot.conv), slot.who.id)}

\* a fetch result handled without the check of ragResponse.ok and without
\* the rejection of the fetch being thrown
sendFetchedUserUnchecked(slot, outcome) ==
    [slot EXCEPT !.upstream = outcome, !.pc = "createAssistantMessage"]

\* a handler that calls the generation service again after a failed call
sendFetchedUserRetry(slot, outcome) ==
    LET s1 == [slot EXCEPT !.upstream = outcome]
    IN  IF outcome # "ok"
        THEN Respond([s1 EXCEPT !.ragRequest = Append(@, @[1])], 500,
                     "Failed to process message")
        ELSE [s1 EXCEPT !.pc = "createAssistantMessage"]

\* ... the fetch's result
sendFetchedUser(slot, outcome) ==
    LET s1 == [slot EXCEPT !.upstream = outcome]
    IN  IF outcome # "ok"
        THEN Respond(s1, 500, "Failed to process message")
        ELSE [s1 EXCEPT !.pc = "createAssistantMessage"]

\* an insert of the assistant's message that stores the sources in reverse
sendCreateAssistantMessageReversed(d, t, slot) ==
    LET saved == createMessage(d, t, parseInt(slot.conv), "assistant", RagAnswer.answer,
                               Some(<<RagAnswer.sources[2], RagAnswer.sources[1]>>))
    IN  IF saved.threw
        THEN [d |-> saved.d, slot |-> Respond(slot, 500, "Failed to process message")]
        ELSE [d |-> saved.d,
              slot |-> Respond([Step(slot, "persistAssistant") EXCEPT
                                    !.assistantMessage = saved.ret], 200, "ok")]

\* ... the insert of the assistant's message and the response
sendCreateAssistantMessage(d, t, slot) ==
    LET saved == createMessage(d, t, parseInt(slot.conv), "assistant",
                               RagAnswer.answer, Some(RagAnswer.sources))
    IN  IF saved.threw
        THEN [d |-> saved.d, slot |-> Respond(slot, 500, "Failed to process message")]
        ELSE [d |-> saved.d,
              slot |-> Respond([Step(slot, "persistAssistant") EXCEPT
                                    !.assistantMessage = saved.ret], 200, "ok")]

----------------------------------------------------------------------------
(* The other conversation routes: the response and the stores afterwards   *)

\* GET /api/conversations: the possible outcomes
listConversationsRoute(d, g, t, who) ==
    IF who.guest
    THEN LET r == getGuestConversations(g, t, who.id)
         IN  {[d |-> d, g |-> r.g, status |-> 200, body |-> "", data |-> r.ret]}
    ELSE {[d |-> d, g |-> g, status |-> 200, body |-> "", data |-> l]
          : l \in getUserConversations(d, who.id)}

\* POST /api/conversations, without a title in the body
createConversationRoute(d, g, t, who, n) ==
    IF who.guest
    THEN LET r == createGuestConversation(g, t, who.id, DefaultTitle, generateId(n))
         IN  [d |-> d, g |-> r.g, n |-> n + 1, status |-> 200, data |-> r.ret]
    ELSE LET r == createConversation(d, d.clock + 1, who.id, DefaultTitle)
         IN  [d |-> r.d, g |-> g, n |-> n, status |-> 200, data |-> r.ret]

\* GET /api/conversations/:id/messages: the possible outcomes
getMessagesRoute(d, g, t, who, conv) ==
    IF who.guest
    THEN LET r == getGuestConversationMessages(g, t, conv, who.id)
         IN  {[d |-> d, g |-> r.g, status |-> 200, body |-> "", data |-> r.ret]}
    ELSE IF parseInt(conv) = NaN
    THEN {[d |-> d, g |-> g, status |-> 400, body |-> "Invalid conversation ID", data |-> <<>>]}
    ELSE {IF r.threw
          THEN [d |-> d, g |-> g, status |-> 404, body |-> "Conversation not found",
                data |-> <<>>]
          ELSE [d |-> d, g |-> g, status |-> 200, body |-> "", data |-> r.ret]
          : r \in getConversationMessages(d, parseInt(conv), who.id)}

\* DELETE /api/conversations/:id
deleteConversationRoute(d, g, t, who, conv) ==
    IF who.guest
    THEN [d |-> d, g |-> deleteGuestConversation(g, t, conv, who.id),
          status |-> 200, body |-> "Conversation deleted"]
    ELSE IF parseInt(conv) = NaN
    THEN [d |-> d, g |-> g, status |-> 400, body |-> "Invalid conversation ID"]
    ELSE [d |-> deleteConversation(d, parseInt(conv), who.id), g |-> g,
          status |-> 200, body |-> "Conversation deleted"]

----------------------------------------------------------------------------
(* The server                                                              *)

\* bounds of the exploration of the stores
MaxSends == 2
MaxActors == 2
MaxLoad == 3
MaxDbConvs == 2
MaxGuestConvs == 2
MaxTicks == 1
TickSteps == {SESSION_TIMEOUT, SESSION_TIMEOUT + 1}

SendIds == 1..MaxSends

\* the guest conversations held, over all sessions
GuestConvs(g) == UNION {Range(g.conversations[x]) : x \in DOMAIN g.conversations}

\* the :id path parameters that requests carry: the ids the database may
\* have issued and the ids of the guest conversations held
ConvParams == {NumericParams[i] : i \in 1..MaxDbConvs} \cup {c.id : c \in GuestConvs(guest)}

\* the generateId() calls made for messages: by the sends of guests
GuestMsgsCreated ==
    Cardinality({r \in SendIds : sends[r].who.guest /\ sends[r].userMessage # Undefined})
    + Cardinality({r \in SendIds : sends[r].who.guest /\ sends[r].assistantMessage # Undefined})

\* the generateId() calls made for conversations
GuestConvsCreated == genCount - GuestMsgsCreated

\* the values NOW() may give to the created_at of an insert made for send r:
\* a later one than every created_at so far, or, when the latest insert was
\* made for another send and was the last to read the clock, that insert's
\* value again (two connections of the pool reading the clock within the
\* same microsecond)
InsertTimes(r) ==
    {db.clock + 1} \cup (IF lastInsertBy \notin {0, r} THEN {db.clock} ELSE {})

\* GET /api/conversations
ListConversations(who) ==
    /\ \E o \in listConversationsRoute(db, guest, now, who) :
           /\ db' = o.d
           /\ guest' = o.g
    /\ UNCHANGED <<now, ticks, rlVars, sends, genCount, lastInsertBy, actors, sendCap, ctx, mw>>

\* POST /api/conversations
CreateConversation(who) ==
    /\ IF who.guest THEN GuestConvsCreated < MaxGuestConvs
                    ELSE db.convSeq < MaxDbConvs
    /\ LET o == createConversationRoute(db, guest, now, who, genCount)
       IN  /\ db' = o.d
           /\ guest' = o.g
           /\ genCount' = o.n
    /\ lastInsertBy' = IF who.guest THEN lastInsertBy ELSE 0
    /\ UNCHANGED <<now, ticks, rlVars, sends, actors, sendCap, ctx, mw>>

\* GET /api/conversations/:id/messages
GetMessages(who, conv) ==
    /\ \E o \in getMessagesRoute(db, guest, now, who, conv) :
           /\ db' = o.d
           /\ guest' = o.g
    /\ UNCHANGED <<now, ticks, rlVars, sends, genCount, lastInsertBy, actors, sendCap, ctx, mw>>

\* DELETE /api/conversations/:id
DeleteConversation(who, conv) ==
    /\ LET o == deleteConversationRoute(db, guest, now, who, conv)
       IN  /\ db' = o.d
           /\ guest' = o.g
    /\ UNCHANGED <<now, ticks, rlVars, sends, genCount, lastInsertBy, actors, sendCap, ctx, mw>>

\* POST /api/conversations/:id/messages arrives: the handler's first step
SendStart(r, who, conv, content) ==
    /\ sends[r].pc = "idle"
    /\ r <= sendCap
    /\ \A q \in SendIds : q < r => sends[q].pc # "idle"
    /\ LET slot == [IdleSend EXCEPT !.who = who, !.conv = conv, !.content = content]
       IN  IF who.guest
           THEN LET o == sendStartGuest(guest, now, slot, genCount)
                IN  /\ guest' = o.g
                    /\ genCount' = o.n
                    /\ sends' = [sends EXCEPT ![r] = o.slot]
                    /\ db' = db
           ELSE /\ sends' = [sends EXCEPT ![r] = sendStartUser(db, slot)]
                /\ UNCHANGED <<db, guest, genCount>>
    /\ UNCHANGED <<now, ticks, rlVars, lastInsertBy, actors, sendCap, ctx, mw>>

\* the insert of the user's message of a registered user's send
SendCreateUserMessage(r) ==
    /\ sends[r].pc = "createUserMessage"
    /\ \E t \in InsertTimes(r) :
           LET o == sendCreateUserMessage(db, t, sends[r])
           IN  /\ db' = o.d
               /\ sends' = [sends EXCEPT ![r] = o.slot]
    /\ lastInsertBy' = r
    /\ UNCHANGED <<now, ticks, rlVars, guest, genCount, actors, sendCap, ctx, mw>>

\* the read of the message list of a registered user's send
SendGetMessages(r) ==
    /\ sends[r].pc = "getMessages"
    /\ \E slot \in sendGetMessages(db, sends[r]) :
           sends' = [sends EXCEPT ![r] = slot]
    /\ UNCHANGED <<now, ticks, rlVars, db, guest, genCount, lastInsertBy, actors, sendCap, ctx, mw>>

\* the generation service's answer to a send, or its failure
SendFetched(r, outcome) ==
    /\ sends[r].pc = "fetch"
    /\ IF sends[r].who.guest
       THEN LET o == sendFinishGuest(guest, now, sends[r], outcome, genCount)
            IN  /\ guest' = o.g
                /\ genCount' = o.n
                /\ sends' = [sends EXCEPT ![r] = o.slot]
                /\ db' = db
       ELSE /\ sends' = [sends EXCEPT ![r] = sendFetchedUser(sends[r], outcome)]
            /\ UNCHANGED <<db, guest, genCount>>
    /\ UNCHANGED <<now, ticks, rlVars, lastInsertBy, actors, sendCap, ctx, mw>>

\* the insert of the assistant's message of a registered user's send
SendCreateAssistantMessage(r) ==
    /\ sends[r].pc = "createAssistantMessage"
    /\ \E t \in InsertTimes(r) :
           LET o == sendCreateAssistantMessage(db, t, sends[r])
           IN  /\ db' = o.d
               /\ sends' = [sends EXCEPT ![r] = o.slot]
    /\ lastInsertBy' = r
    /\ UNCHANGED <<now, ticks, rlVars, guest, genCount, actors, sendCap, ctx, mw>>

\* setInterval(() => storage.cleanupExpiredSessions(), 60 * 60 * 1000)
Reaper ==
    /\ guest' = cleanupExpiredSessions(guest, now)
    /\ UNCHANGED <<now, ticks, rlVars, db, sends, genCount, lastInsertBy, actors, sendCap, ctx, mw>>

\* time passes
Tick(d) ==
    /\ ticks < MaxTicks
    /\ now' = now + d
    /\ ticks' = ticks + 1
    /\ UNCHANGED <<rlVars, storeVars>>

\* the server after construction, before any request
Started ==
    /\ now = 0
    /\ ticks = 0
    /\ rateLimiter = EmptyMap
    /\ admitted = [k \in ClientKeys |-> [r \in RouteClasses |-> <<>>]]
    /\ rlCount = 0
    /\ db = EmptyDb
    /\ guest = EmptyGuest
    /\ sends = [r \in SendIds |-> IdleSend]
    /\ genCount = 0
    /\ lastInsertBy = 0

Init ==
    /\ Started
    /\ actors \in {A \in SUBSET Identities : Cardinality(A) \in 1..MaxActors}
    /\ sendCap \in 1..MaxSends
    /\ Cardinality(actors) + sendCap = MaxLoad
    /\ ctx = NoContext
    /\ mw = NoRequest

Next ==
    \/ \E who \in actors : ListConversations(who)
    \/ \E who \in actors : CreateConversation(who)
    \/ \E who \in actors, conv \in ConvParams : GetMessages(who, conv)
    \/ \E who \in actors, conv \in ConvParams : DeleteConversation(who, conv)
    \/ \E r \in SendIds, who \in actors, conv \in ConvParams, content \in Contents :
           SendStart(r, who, conv, content)
    \/ \E r \in SendIds : SendCreateUserMessage(r)
    \/ \E r \in SendIds : SendGetMessages(r)
    \/ \E r \in SendIds, outcome \in RagOutcomes : SendFetched(r, outcome)
    \/ \E r \in SendIds : SendCreateAssistantMessage(r)
    \/ Reaper
    \/ \E d \in TickSteps : Tick(d)

\* the conversation routes, the two stores, the cleanup timer and the clock
Spec == Init /\ [][Next]_vars

\* the context window builder alone, on every message list of up to
\* MaxCtxLen messages
CtxInit ==
    /\ Started
    /\ actors = {}
    /\ sendCap = 0
    /\ ctx \in {[NoContext EXCEPT !.recentMessages = l] : l \in MessageLists}
    /\ mw = NoRequest

\* const contextMessages = recentMessages.slice(-6).map(...)
BuildContext ==
    /\ ctx.contextMessages = Undefined
    /\ ctx' = [ctx EXCEPT !.contextMessages = Some(contextMessages(ctx.recentMessages))]
    /\ UNCHANGED <<now, ticks, rlVars, db, guest, sends, genCount, lastInsertBy,
                   actors, sendCap, mw>>

CtxNext == BuildContext

SpecCtx == CtxInit /\ [][CtxNext]_vars

\* the rate limiter alone
RLInit ==
    /\ Started
    /\ actors = {}
    /\ sendCap = 0
    /\ ctx = NoContext
    /\ mw = NoRequest

SpecRL == RLInit /\ [][RLNext]_vars

MwInit ==
    /\ Started
    /\ actors = {}
    /\ sendCap = 0
    /\ ctx = NoContext
    /\ mw = NoRequest

MwNext ==
    \/ \E h \in AuthHeaders, x \in ReqSessions : MwArrive(h, x)
    \/ MwAuthenticate
    \/ MwRateLimit

\* the middleware chain of the send route alone
SpecMw == MwInit /\ [][MwNext]_vars

\* one send of a registered user or of a guest, with the database answering
\* every call made to it; nothing makes the generation service answer
LiveInit ==
    /\ Started
    /\ actors \in {{Identity(FALSE, "u1")}, {Identity(TRUE, "s1")}}
    /\ sendCap = 1
    /\ ctx = NoContext
    /\ mw = NoRequest

\* a database call of send r returns
SendDbStep(r) ==
    SendCreateUserMessage(r) \/ SendGetMessages(r) \/ SendCreateAssistantMessage(r)

SpecLive == LiveInit /\ [][Next]_vars /\ \A r \in SendIds : WF_vars(SendDbStep(r))

\* the same requests with the hourly timer of cleanupExpiredSessions firing
\* again and again
SpecReap == LiveInit /\ [][Next]_vars /\ WF_vars(Reaper)

----------------------------------------------------------------------------
(* The guest store called method by method                                 *)

\* bound on the generateId() calls of the exploration of the guest store
GsMaxIds == 3

\* the ids that callers pass: those issued so far and one never issued
GsIds == {GenIds[i] : i \in 1..genCount} \cup {"zz"}

GsUnchanged == UNCHANGED <<now, ticks, rlVars, db, sends, lastInsertBy, actors, sendCap, ctx, mw>>

GsGetGuestConversations(S) ==
    /\ guest' = getGuestConversations(guest, now, S).g
    /\ UNCHANGED genCount
    /\ GsUnchanged

GsCreateGuestConversation(S) ==
    /\ genCount < GsMaxIds
    /\ guest' = createGuestConversation(guest, now, S, DefaultTitle, generateId(genCount)).g
    /\ genCount' = genCount + 1
    /\ GsUnchanged

GsGetGuestConversation(S, id) ==
    /\ guest' = getGuestConversation(guest, now, id, S).g
    /\ UNCHANGED genCount
    /\ GsUnchanged

GsUpdateGuestConversationTitle(S, id) ==
    /\ guest' = updateGuestConversationTitle(guest, now, id, S, "t")
    /\ UNCHANGED genCount
    /\ GsUnchanged

GsDeleteGuestConversation(S, id) ==
    /\ guest' = deleteGuestConversation(guest, now, id, S)
    /\ UNCHANGED genCount
    /\ GsUnchanged

GsGetGuestConversationMessages(S, id) ==
    /\ guest' = getGuestConversationMessages(guest, now, id, S).g
    /\ UNCHANGED genCount
    /\ GsUnchanged

GsCreateGuestMessage(S, id, role) ==
    /\ genCount < GsMaxIds
    /\ guest' = createGuestMessage(guest, now, id, S, role, <<"a">>, Undefined,
                                   generateId(genCount)).g
    /\ genCount' = genCount + 1
    /\ GsUnchanged

GsDeleteGuestMessage(S, id, conversationId) ==
    /\ guest' = deleteGuestMessage(guest, id, conversationId, S)
    /\ UNCHANGED genCount
    /\ GsUnchanged

GsInit ==
    /\ Started
    /\ actors = {}
    /\ sendCap = 0
    /\ ctx = NoContext
    /\ mw = NoRequest

GsNext ==
    \/ \E S \in Sessions : GsGetGuestConversations(S)
    \/ \E S \in Sessions : GsCreateGuestConversation(S)
    \/ \E S \in Sessions, id \in GsIds : GsGetGuestConversation(S, id)
    \/ \E S \in Sessions, id \in GsIds : GsUpdateGuestConversationTitle(S, id)
    \/ \E S \in Sessions, id \in GsIds : GsDeleteGuestConversation(S, id)
    \/ \E S \in Sessions, id \in GsIds : GsGetGuestConversationMessages(S, id)
    \/ \E S \in Sessions, id \in GsIds, role \in {"user", "assistant"} :
           GsCreateGuestMessage(S, id, role)
    \/ \E S \in Sessions, id \in GsIds, conversationId \in GsIds :
           GsDeleteGuestMessage(S, id, conversationId)
    \/ Reaper
    \/ \E d \in TickSteps : Tick(d)

SpecGs == GsInit /\ [][GsNext]_vars

----------------------------------------------------------------------------
(* Rate limiter: properties                                                *)

\* number of accepted requests of (key, route) in the window that ends at t
AdmittedInWindow(key, route, t) ==
    Cardinality({i \in DOMAIN admitted[key][route] :
                    /\ admitted[key][route][i] > t - windowMsOf(route)
                    /\ admitted[key][route][i] <= t})

\* C1: for every client key and route class, the number of requests accepted
\* on that route class within any rolling window of that route never exceeds
\* the route's maxRequests (every window that matters ends at an accepted
\* request).
C1_AtMostMaxPerWindow ==
    \A k \in ClientKeys, r \in RouteClasses :
        \A i \in DOMAIN admitted[k][r] :
            AdmittedInWindow(k, r, admitted[k][r][i]) <= maxRequestsOf(r)

\* whether a request of key on route would be accepted now
WouldAccept(key, route) ==
    rateLimit(rateLimiter, key, now, maxRequestsOf(route), windowMsOf(route)).ok

\* C2: the buckets are independent per (route class, client key): a request
\* of client K on one route class (accepted or rejected) changes neither the
\* timestamps recorded for K on another route class nor the decision that the
\* next request of K on another route class gets.
C2_OtherRouteUnaffected ==
    [][\A k \in ClientKeys, r \in RouteClasses :
          RateLimitedRequest(k, r) =>
              \A r2 \in RouteClasses \ {r} :
                  /\ WouldAccept(k, r2)' = WouldAccept(k, r2)
                  /\ FilterWindow(rateLimiter'[k], now - windowMsOf(r2))
                       = IF k \in DOMAIN rateLimiter
                         THEN FilterWindow(rateLimiter[k], now - windowMsOf(r2))
                         ELSE <<>>]_vars

----------------------------------------------------------------------------
(* Guest session expiry                                                    *)

\* session S holds a lease that has had no access for longer than the TTL
LeaseExpired(S) ==
    /\ S \in DOMAIN guest.sessionTimestamps
    /\ now - guest.sessionTimestamps[S] > SESSION_TIMEOUT

\* this step is a store operation made for session S, or a pass of the Reaper
OperatesOnSession(S) ==
    LET who == Identity(TRUE, S)
    IN  \/ ListConversations(who)
        \/ CreateConversation(who)
        \/ \E conv \in ConvParams : GetMessages(who, conv) \/ DeleteConversation(who, conv)
        \/ \E r \in SendIds, conv \in ConvParams, content \in Contents :
               ~ContentInvalid(content) /\ SendStart(r, who, conv, content)
        \/ \E r \in SendIds : sends[r].who = who /\ SendFetched(r, "ok")
        \/ Reaper

\* the conversations and messages of S held before this step and still held
\* after it
KeptOfSession(S) ==
    (Range(GetOrEmpty(guest.conversations, S)) \cap Range(GetOrEmpty(guest'.conversations, S)))
    \cup
    (Range(GetOrEmpty(guest.messages, S)) \cap Range(GetOrEmpty(guest'.messages, S)))

\* C3: once the lease of a guest session has had no access for longer than
\* the TTL, the next operation on the session, or the next pass of the
\* Reaper, leaves none of the session's earlier conversations and messages
\* stored: no operation refreshes the lease of an expired session while
\* data created before the expiry is still stored under it.
C3_ExpiredSessionPurged ==
    [][\A S \in Sessions :
          LeaseExpired(S) /\ OperatesOnSession(S) => KeptOfSession(S) = {}]_vars

----------------------------------------------------------------------------
(* Ownership                                                               *)

\* the store holds conversation conv under identity who
Owns(who, conv) ==
    IF who.guest
    THEN \E c \in Range(GetOrEmpty(guest.conversations, who.id)) : c.id = conv
    ELSE \E c \in db.conversations : c.id = parseInt(conv) /\ c.userId = who.id

\* the status with which a send of who to conv with valid content leaves the
\* ownership check, 0 when it passes the check
SendOwnershipStatus(who, conv, content) ==
    LET slot == [IdleSend EXCEPT !.who = who, !.conv = conv, !.content = content]
    IN  IF who.guest
        THEN LET o == sendStartGuest(guest, now, slot, genCount).slot
             IN  IF o.pc = "done" THEN o.status ELSE 0
        ELSE sendStartUser(db, slot).status

\* C4: on both backends, listing the messages of, deleting, or appending a
\* message to a conversation that is not stored under the requesting
\* identity (it does not exist, or belongs to another identity) is answered
\* with not-found (404).
C4_UnownedIsNotFound ==
    \A who \in Identities, conv \in ConvParams :
        (who.guest \/ parseInt(conv) # NaN) /\ ~Owns(who, conv) =>
            /\ \A o \in getMessagesRoute(db, guest, now, who, conv) : o.status = 404
            /\ deleteConversationRoute(db, guest, now, who, conv).status = 404
            /\ \A content \in Contents :
                   ~ContentInvalid(content) => SendOwnershipStatus(who, conv, content) = 404

----------------------------------------------------------------------------
(* Isolation between identities                                            *)

\* what stores d and g hold under identity who
ViewOf(d, g, who) ==
    IF who.guest
    THEN [conversations |-> IF who.id \in DOMAIN g.conversations
                            THEN Some(g.conversations[who.id]) ELSE Undefined,
          messages |-> IF who.id \in DOMAIN g.messages
                       THEN Some(g.messages[who.id]) ELSE Undefined,
          lease |-> IF who.id \in DOMAIN g.sessionTimestamps
                    THEN Some(g.sessionTimestamps[who.id]) ELSE Undefined]
    ELSE LET own == {c \in d.conversations : c.userId = who.id}
         IN  [conversations |-> own,
              messages |-> {m \in d.messages : m.conversationId \in {c.id : c \in own}},
              lease |-> Undefined]

\* the stores with everything held under the other identities removed; the
\* identifiers issued so far stay issued
OnlyDb(d, who) ==
    LET own == IF who.guest THEN {} ELSE {c \in d.conversations : c.userId = who.id}
    IN  [d EXCEPT !.conversations = own,
                  !.messages = {m \in @ : m.conversationId \in {c.id : c \in own}}]

OnlyGuest(g, who) ==
    LET keep(m) == [k \in DOMAIN m \cap (IF who.guest THEN {who.id} ELSE {}) |-> m[k]]
    IN  [conversations |-> keep(g.conversations), messages |-> keep(g.messages),
         sessionTimestamps |-> keep(g.sessionTimestamps)]

\* this step is a step of a request made under identity J
StepBy(J) ==
    \/ ListConversations(J)
    \/ CreateConversation(J)
    \/ \E conv \in ConvParams : GetMessages(J, conv) \/ DeleteConversation(J, conv)
    \/ \E r \in SendIds, conv \in ConvParams, content \in Contents :
           SendStart(r, J, conv, content)
    \/ \E r \in SendIds :
           /\ sends[r].pc # "idle"
           /\ sends[r].who = J
           /\ \/ SendCreateUserMessage(r)
              \/ SendGetMessages(r)
              \/ \E outcome \in RagOutcomes : SendFetched(r, outcome)
              \/ SendCreateAssistantMessage(r)

\* no step of a request of J changes what the stores hold under I, or a
\* request of I in flight
StepsLeaveOthersAlone ==
    \A I \in actors : \A J \in actors \ {I} :
        StepBy(J) =>
            /\ ViewOf(db', guest', I) = ViewOf(db, guest, I)
            /\ \A r \in SendIds :
                   sends[r].pc # "idle" /\ sends[r].who = I => sends'[r] = sends[r]

\* what identity I sees of the outcomes of a route: the response and what
\* the stores hold under I afterwards
SeenBy(I, outcomes) ==
    {[status |-> o.status, data |-> o.data, view |-> ViewOf(o.d, o.g, I)] : o \in outcomes}

\* the next step of the send of I held in slot, computed on stores d and g:
\* the possible results, each the slot and what the stores hold under I
SendStepOn(d, g, I, slot) ==
    CASE slot.pc = "createUserMessage" ->
            {LET o == sendCreateUserMessage(d, t, slot)
             IN  [slot |-> o.slot, view |-> ViewOf(o.d, g, I)] : t \in {db.clock, db.clock + 1}}
      [] slot.pc = "getMessages" ->
            {[slot |-> o, view |-> ViewOf(d, g, I)] : o \in sendGetMessages(d, slot)}
      [] slot.pc = "fetch" ->
            {IF I.guest
             THEN LET o == sendFinishGuest(g, now, slot, outcome, genCount)
                  IN  [slot |-> o.slot, view |-> ViewOf(d, o.g, I)]
             ELSE [slot |-> sendFetchedUser(slot, outcome), view |-> ViewOf(d, g, I)]
             : outcome \in RagOutcomes}
      [] slot.pc = "createAssistantMessage" ->
            {LET o == sendCreateAssistantMessage(d, t, slot)
             IN  [slot |-> o.slot, view |-> ViewOf(o.d, g, I)] : t \in {db.clock, db.clock + 1}}
      [] OTHER -> {}

\* the first step of a send of I, computed on stores d and g
SendStartOn(d, g, I, conv, content) ==
    LET slot == [IdleSend EXCEPT !.who = I, !.conv = conv, !.content = content]
    IN  IF I.guest
        THEN LET o == sendStartGuest(g, now, slot, genCount)
             IN  [slot |-> o.slot, view |-> ViewOf(d, o.g, I)]
        ELSE [slot |-> sendStartUser(d, slot), view |-> ViewOf(d, g, I)]

\* every request of I, and every step of a send of I in flight, has the same
\* outcomes on the stores as on the stores without what the other
\* identities hold
OutcomesIgnoreOthers ==
    \A I \in actors :
        LET d1 == OnlyDb(db, I)
            g1 == OnlyGuest(guest, I)
        IN  /\ SeenBy(I, listConversationsRoute(db, guest, now, I))
                  = SeenBy(I, listConversationsRoute(d1, g1, now, I))
            /\ SeenBy(I, {createConversationRoute(db, guest, now, I, genCount)})
                  = SeenBy(I, {createConversationRoute(d1, g1, now, I, genCount)})
            /\ \A conv \in ConvParams :
                   /\ SeenBy(I, getMessagesRoute(db, guest, now, I, conv))
                         = SeenBy(I, getMessagesRoute(d1, g1, now, I, conv))
                   /\ LET a == deleteConversationRoute(db, guest, now, I, conv)
                          b == deleteConversationRoute(d1, g1, now, I, conv)
                      IN  a.status = b.status /\ ViewOf(a.d, a.g, I) = ViewOf(b.d, b.g, I)
                   /\ \A content \in Contents :
                          SendStartOn(db, guest, I, conv, content)
                            = SendStartOn(d1, g1, I, conv, content)
            /\ \A r \in SendIds :
                   sends[r].who = I =>
                       SendStepOn(db, guest, I, sends[r]) = SendStepOn(d1, g1, I, sends[r])

----------------------------------------------------------------------------
(* Appending and listing messages                                          *)

\* the message that send r appends in this step: Some(m), or Undefined when
\* the step appends none
AppendedBy(r) ==
    IF sends'[r].userMessage # sends[r].userMessage THEN sends'[r].userMessage
    ELSE IF sends'[r].assistantMessage # sends[r].assistantMessage
    THEN sends'[r].assistantMessage
    ELSE Undefined

\* the possible results of listing the messages of conv for who on stores d
\* and g at time t; none when the listing fails
ListingsOf(d, g, t, who, conv) ==
    IF who.guest
    THEN {getGuestConversationMessages(g, t, conv, who.id).ret}
    ELSE {o.ret : o \in {x \in getConversationMessages(d, parseInt(conv), who.id) : ~x.threw}}

\* the role, content and sources that send r gives to the append of message m
AsAppended(r, m) ==
    IF m.role = "user"
    THEN m.content = Trim(sends'[r].content.chars) /\ m.sources = Undefined
    ELSE /\ m.role = "assistant"
         /\ m.content = RagAnswer.answer
         /\ m.sources = Some(RagAnswer.sources)

\* C6: immediately after an append of a message succeeds, listing the
\* messages of the same conversation for the same identity returns a list
\* that contains that message with the role, content and sources given, that
\* holds all previously listed messages in their previous relative order, that
\* is in non-decreasing createdAt order, and in which the new message stands
\* before no earlier message.
C6_AppendThenList ==
    [][\A r \in SendIds :
          AppendedBy(r) # Undefined =>
              LET m == AppendedBy(r)[1]
                  who == sends'[r].who
                  conv == sends'[r].conv
                  before == ListingsOf(db, guest, now, who, conv)
                  after == ListingsOf(db', guest', now', who, conv)
              IN  /\ after # {}
                  /\ AsAppended(r, m)
                  /\ \A l \in after :
                         /\ l # <<>> /\ l[Len(l)] = m
                         /\ \A i \in 1..(Len(l) - 1) : l[i].createdAt <= l[i + 1].createdAt
                         /\ \A b \in before :
                                SelectSeq(l, LAMBDA x : x \in Range(b)) = b]_vars

----------------------------------------------------------------------------
(* The context window                                                      *)

\* C7: for every message list of length L, the context sent to the
\* generation service is the last min(L, 6) messages in their order, each
\* as {role, content} without its sources; of 10 messages it is the last 6.
C7_ContextIsLastSix ==
    ctx.contextMessages # Undefined =>
        LET given == ctx.recentMessages
            built == ctx.contextMessages[1]
            L == Len(given)
            k == IF L < 6 THEN L ELSE 6
        IN  /\ Len(built) = k
            /\ \A i \in 1..k :
                   built[i] = [role |-> given[L - k + i].role,
                               content |-> given[L - k + i].content]
            /\ L = 10 => Len(built) = 6 /\ built[1].content = given[5].content

\* a context built of 10 messages, with an assistant's message, which has
\* sources, among the last 6
C7_Witness ==
    /\ ctx.contextMessages # Undefined
    /\ Len(ctx.recentMessages) = 10
    /\ \E i \in 5..10 : ctx.recentMessages[i].sources # Undefined

----------------------------------------------------------------------------
(* The send-message handler                                                *)

\* content that is missing, not a string, empty or only white space
BadContent(c) ==
    \/ c.type # "string"
    \/ \A i \in DOMAIN c.chars : c.chars[i] \in {" ", "\t", "\n"}

\* the messages held by the two stores
StoredMessages ==
    db.messages \cup UNION {Range(guest.messages[x]) : x \in DOMAIN guest.messages}

\* C8: a send-message request (one that reaches the handler) whose content
\* is missing, not a string, empty or only white space is answered with 400
\* and changes no store: no message is appended and no call to the generation
\* service is made, for guests and registered users alike.
C8_InvalidContentRejected ==
    [][\A r \in SendIds, who \in actors, conv \in ConvParams, content \in Contents :
          BadContent(content) /\ SendStart(r, who, conv, content) =>
              /\ sends'[r].pc = "done"
              /\ sends'[r].status = 400
              /\ sends'[r].ragRequest = <<>>
              /\ sends'[r].userMessage = Undefined
              /\ db' = db
              /\ guest' = guest
              /\ genCount' = genCount]_vars

\* a send with content of white space only to a conversation of the sender
\* has been answered
C8_Witness ==
    \E r \in SendIds :
        /\ sends[r].pc = "done"
        /\ sends[r].content = Content("string", <<" ", "\t">>)
        /\ Owns(sends[r].who, sends[r].conv)

\* the generation call of send r has failed
GenerationFailed(r) == sends[r].pc = "done" /\ sends[r].upstream \in {"connect", "status"}

\* C9: when the generation call of a send fails (the connection fails or the
\* status is not a success), the request is answered with the failure
\* response (500), that send has appended no assistant message, and the user
\* message it wrote stays persisted: while the conversation is still held
\* under the sender (and a guest's session has not expired) every listing of
\* the conversation returns it.
C9_FailureKeepsUserMessage ==
    /\ \A r \in SendIds :
           GenerationFailed(r) =>
               /\ sends[r].status = 500
               /\ sends[r].body = "Failed to process message"
               /\ sends[r].userMessage # Undefined
               /\ sends[r].assistantMessage = Undefined
               /\ LET who == sends[r].who
                      conv == sends[r].conv
                  IN  /\ Owns(who, conv)
                      /\ who.guest => ~isSessionExpired(guest, now, who.id)
                      => /\ ListingsOf(db, guest, now, who, conv) # {}
                         /\ \A l \in ListingsOf(db, guest, now, who, conv) :
                                sends[r].userMessage[1] \in Range(l)
    /\ \A m \in StoredMessages :
           m.role = "assistant" =>
               \E r \in SendIds :
                   sends[r].assistantMessage = Some(m) /\ sends[r].upstream = "ok"

\* a send whose generation call failed has been answered and its user
\* message is listed
C9_Witness ==
    \E r \in SendIds :
        /\ GenerationFailed(r)
        /\ Owns(sends[r].who, sends[r].conv)
        /\ \E l \in ListingsOf(db, guest, now, sends[r].who, sends[r].conv) :
               l # <<>> /\ sends[r].userMessage[1] \in Range(l)

\* the steps of a send in their order
SendOrder == <<"validate", "own", "persistUser", "list", "generate", "persistAssistant">>

IsPrefix(s, t) == Len(s) <= Len(t) /\ s = SubSeq(t, 1, Len(s))

----------------------------------------------------------------------------
(* Concurrent sends on one conversation                                    *)

\* sends r and q are two sends of one guest session on one conversation, and
\* each has appended its user message
TwoGuestAppends(r, q) ==
    /\ r # q
    /\ sends[r].who.guest
    /\ sends[r].who = sends[q].who
    /\ sends[r].conv = sends[q].conv
    /\ sends[r].userMessage # Undefined
    /\ sends[q].userMessage # Undefined

\* C11: two appends in flight at once on one guest conversation both succeed
\* and none is lost, however their steps interleave with each other and
\* with reads of the session: an append adds its message to the end of the
\* session's list and keeps every message already there, and while the
\* conversation is held and the session is live a listing returns both
\* messages.
C11_NoLostGuestAppend ==
    /\ [][\A r \in SendIds :
             AppendedBy(r) # Undefined /\ sends'[r].who.guest =>
                 guest'.messages[sends'[r].who.id]
                   = Append(GetOrEmpty(guest.messages, sends'[r].who.id), AppendedBy(r)[1])]_vars
    /\ [](\A r \in SendIds, q \in SendIds :
             /\ TwoGuestAppends(r, q)
             /\ Owns(sends[r].who, sends[r].conv)
             /\ ~isSessionExpired(guest, now, sends[r].who.id)
             => \A l \in ListingsOf(db, guest, now, sends[r].who, sends[r].conv) :
                    {sends[r].userMessage[1], sends[q].userMessage[1]} \subseteq Range(l))

\* two sends of one guest session on one conversation are both awaiting the
\* generation service, and a listing returns both user messages
C11_Witness ==
    \E r \in SendIds, q \in SendIds :
        /\ TwoGuestAppends(r, q)
        /\ sends[r].pc = "fetch" /\ sends[q].pc = "fetch"
        /\ {sends[r].userMessage[1], sends[q].userMessage[1]}
             \subseteq Range(getGuestConversationMessages(guest, now, sends[r].conv,
                                                         sends[r].who.id).ret)

\* C12: sends on one conversation are serialized: in every listing of a
\* conversation the assistant message of a send directly follows the user
\* message of that same send, so the pairs of two simultaneous sends never
\* interleave.
C12_SendsSerialized ==
    \A r \in SendIds :
        sends[r].assistantMessage # Undefined =>
            \A l \in ListingsOf(db, guest, now, sends[r].who, sends[r].conv) :
                {sends[r].userMessage[1], sends[r].assistantMessage[1]} \subseteq Range(l)
                => \E i \in 1..(Len(l) - 1) :
                       /\ l[i] = sends[r].userMessage[1]
                       /\ l[i + 1] = sends[r].assistantMessage[1]

----------------------------------------------------------------------------
(* Identity resolution and the order of the middleware                     *)

\* authenticateUserOrGuest has run on the request in the middleware
Resolved == mw.pc \in {"rateLimit", "done"}

\* the request carries a token that verifies and names an existing user
RegisteredToken ==
    /\ mw.authHeader # Undefined
    /\ Len(mw.authHeader) >= 2
    /\ mw.authHeader[2].sig = "good"
    /\ ~mw.authHeader[2].expired
    /\ mw.authHeader[2].userId \in Users

\* C13: identity resolution is a total function of the bearer token and the
\* guest session: it yields the registered user exactly when a token is
\* present, verifies and names an existing user; otherwise the guest session
\* when the request has one; otherwise 401.  It never yields both or
\* neither, and a token that does not verify never by itself fails a
\* request that has a guest session.
C13_IdentityResolution ==
    Resolved =>
        IF RegisteredToken
        THEN mw.who = Some(Identity(FALSE, mw.authHeader[2].userId)) /\ mw.status # 401
        ELSE IF mw.session # Undefined
        THEN mw.who = Some(Identity(TRUE, mw.session[1])) /\ mw.status # 401
        ELSE mw.who = Undefined /\ mw.status = 401 /\ mw.pc = "done"

\* a request whose token does not verify and that has a guest session has
\* been resolved to the guest session
C13_Witness ==
    /\ Resolved
    /\ mw.authHeader # Undefined
    /\ Len(mw.authHeader) >= 2
    /\ mw.authHeader[2].sig = "bad"
    /\ mw.who = Some(Identity(TRUE, "s1"))

\* C16: a request answered with 401 or 429 has touched no store between its
\* arrival and its response, and on the send route the rate limiter runs
\* before identity resolution.
C16_RejectedTouchesNoStore ==
    /\ mw.pc = "done" /\ mw.status \in {401, 429} => mw.reads = <<>>
    /\ mw.trace # <<>> => mw.trace[1] = "rateLimit"

\* the part of C16 about 429 alone: a request answered with 429 has read no
\* store
RateLimitedReadNoStore == mw.pc = "done" /\ mw.status = 429 => mw.reads = <<>>

----------------------------------------------------------------------------
(* Completion of a send                                                    *)

\* C14: every send-message request eventually completes with a response,
\* also when the generation service never answers (the call carrying a
\* bounded timeout).
C14_SendCompletes ==
    \A r \in SendIds : (sends[r].pc # "idle") ~> (sends[r].pc = "done")

----------------------------------------------------------------------------
(* Guest session leases                                                    *)

\* session S holds a lease that has not expired
LeaseLive(S) ==
    /\ S \in DOMAIN guest.sessionTimestamps
    /\ now - guest.sessionTimestamps[S] <= SESSION_TIMEOUT

\* this step is a guest-store operation made for session S by a request
GuestOperation(S) ==
    LET who == Identity(TRUE, S)
    IN  \/ ListConversations(who)
        \/ CreateConversation(who)
        \/ \E conv \in ConvParams : GetMessages(who, conv) \/ DeleteConversation(who, conv)
        \/ \E r \in SendIds, conv \in ConvParams, content \in Contents :
               ~ContentInvalid(content) /\ SendStart(r, who, conv, content)
        \/ \E r \in SendIds : sends[r].who = who /\ SendFetched(r, "ok")

\* C15: every guest-store operation that succeeds on a session whose lease
\* has not expired sets the session's lastTouchedAt to the current time (so
\* that a session used at least once in every TTL interval is never purged).
C15_OperationsTouch ==
    [][\A S \in Sessions :
          LeaseLive(S) /\ GuestOperation(S) =>
              /\ S \in DOMAIN guest'.sessionTimestamps
              /\ guest'.sessionTimestamps[S] = now]_vars

----------------------------------------------------------------------------
(* Failure signals of a send                                               *)

\* the class of the failure with which send r ended, "" when it has not
\* ended or ended well
FailureClass(r) ==
    LET s == sends[r]
    IN  IF s.pc # "done" \/ s.status = 200 THEN ""
        ELSE IF s.status = 400 THEN "Validation"
        ELSE IF s.status = 404 THEN "NotFound"
        ELSE IF s.upstream \in {"connect", "status"} THEN "Upstream"
        ELSE "Internal"

\* C17: on send-message every failure class has its own outward signal: two
\* sends that failed with different classes were answered with responses
\* that differ in status or body; a failure of the generation service is
\* never answered like an internal failure such as a failed store write.
C17_DistinctFailureSignals ==
    \A r \in SendIds, q \in SendIds :
        /\ FailureClass(r) # ""
        /\ FailureClass(q) # ""
        /\ FailureClass(r) # FailureClass(q)
        => <<sends[r].status, sends[r].body>> # <<sends[q].status, sends[q].body>>

----------------------------------------------------------------------------
(* The Reaper                                                              *)

\* C18: a pass of the Reaper is idempotent and selective: a second pass at
\* the same time changes nothing, the pass removes every session whose
\* lease has expired from all three maps, and it leaves the conversations,
\* messages and lastTouchedAt of every session with a live lease unchanged.
C18_ReaperIdempotentSelective ==
    LET swept == cleanupExpiredSessions(guest, now)
    IN  /\ cleanupExpiredSessions(swept, now) = swept
        /\ \A S \in DOMAIN guest.sessionTimestamps :
               IF LeaseExpired(S)
               THEN /\ S \notin DOMAIN swept.conversations
                    /\ S \notin DOMAIN swept.messages
                    /\ S \notin DOMAIN swept.sessionTimestamps
               ELSE ViewOf(db, swept, Identity(TRUE, S)) = ViewOf(db, guest, Identity(TRUE, S))

\* one session with conversations has an expired lease and another session
\* with conversations has a live one
C18_Witness ==
    \E S \in Sessions, T \in Sessions :
        /\ LeaseExpired(S) /\ GetOrEmpty(guest.conversations, S) # <<>>
        /\ LeaseLive(T) /\ GetOrEmpty(guest.conversations, T) # <<>>

----------------------------------------------------------------------------
(* Races of a send with purges and deletes                                 *)

\* C19: when a guest session has been purged while a send on it awaits the
\* generation service, the send ends with not-found and writes nothing
\* under the session: no entry for it reappears in the conversation, message
\* or lease map.
C19_PurgedSessionStaysPurged ==
    [][\A r \in SendIds :
          /\ sends[r].pc = "fetch"
          /\ sends[r].who.guest
          /\ sends[r].who.id \notin DOMAIN guest.sessionTimestamps
          /\ \E outcome \in RagOutcomes : SendFetched(r, outcome)
          => /\ sends'[r].status = 404
             /\ sends[r].who.id \notin DOMAIN guest'.conversations
             /\ sends[r].who.id \notin DOMAIN guest'.messages
             /\ sends[r].who.id \notin DOMAIN guest'.sessionTimestamps]_vars

\* C20: for registered users the ownership check and the insert of a send
\* are atomic with respect to other requests: no send that has passed the
\* ownership check on a conversation attempts the insert of its user message
\* or of its assistant message after the conversation has been deleted.
C20_CheckAndInsertAtomic ==
    [][\A r \in SendIds :
          SendCreateUserMessage(r) \/ SendCreateAssistantMessage(r) =>
              getConversation(db, parseInt(sends[r].conv), sends[r].who.id) # Undefined]_vars

----------------------------------------------------------------------------
(* Rate limiter: configuration, rejected requests, atomicity               *)

\* 15 minutes in ms
FifteenMinutesMs == 15 * 60 * 1000

\* C23: the limits are 5 requests per 15 minutes for registration (10 per 15
\* minutes for login, 30 per minute for send): a client that made requests
\* on the registration route only and whose accepted registration requests
\* are all older than 15 minutes is admitted on its next registration
\* request.
C23_RegisterAdmittedAfter15Min ==
    \A k \in ClientKeys :
        /\ RegisterMax = 5 /\ LoginMax = 10 /\ SendMax = 30
        /\ LoginWindowMs = FifteenMinutesMs
        /\ SendWindowMs = 60 * 1000
        /\ (/\ admitted[k]["login"] = <<>>
            /\ admitted[k]["send"] = <<>>
            /\ \A i \in DOMAIN admitted[k]["register"] :
                   now - admitted[k]["register"][i] > FifteenMinutesMs)
           => WouldAccept(k, "register")

\* the oldest timestamp held for key, the bucket being in time order
Oldest(key) == rateLimiter[key][1]

\* C25: a rejected request leaves the client's bucket unchanged, an accepted
\* one records its time; and once the oldest timestamp of the bucket is at
\* least the window old (exactly the window old counts), the next request
\* is accepted.
C25_RejectedLeavesBucket ==
    [][\A k \in ClientKeys, r \in RouteClasses :
          RateLimitedRequest(k, r) =>
              LET res == rateLimit(rateLimiter, k, now, maxRequestsOf(r), windowMsOf(r))
              IN  /\ ~res.ok => rateLimiter' = rateLimiter
                  /\ res.ok => rateLimiter'[k][Len(rateLimiter'[k])] = now
                  /\ (/\ k \in DOMAIN rateLimiter
                      /\ rateLimiter[k] # <<>>
                      /\ now - Oldest(k) >= windowMsOf(r)) => res.ok]_vars

\* every accepted request of key so far was made on route
OnlyRoute(key, route) ==
    \A r2 \in RouteClasses \ {route} : admitted[key][r2] = <<>>

\* C26: the limiter's step is atomic: among requests of one client key on one
\* route, the count a request observes is the number of requests of that key
\* accepted in its window before it (no accepted request is missed, so no two
\* requests admitted at one instant observe the same count), and no window
\* holds more than maxRequests accepted requests.
C26_LimiterStepAtomic ==
    /\ [][\A k \in ClientKeys, r \in RouteClasses :
             RateLimitedRequest(k, r) /\ OnlyRoute(k, r) =>
                 LET bucket == IF k \in DOMAIN rateLimiter THEN rateLimiter[k] ELSE <<>>
                 IN  Len(FilterWindow(bucket, now - windowMsOf(r)))
                         = AdmittedInWindow(k, r, now)]_vars
    /\ [](\A k \in ClientKeys, r \in RouteClasses :
             OnlyRoute(k, r) =>
                 \A i \in DOMAIN admitted[k][r] :
                     AdmittedInWindow(k, r, admitted[k][r][i]) <= maxRequestsOf(r))

\* a client that used the registration route only has had RegisterMax
\* requests accepted at one instant and is now refused
C26_Witness ==
    \E k \in ClientKeys :
        /\ OnlyRoute(k, "register")
        /\ Len(admitted[k]["register"]) = RegisterMax
        /\ \A i \in DOMAIN admitted[k]["register"] : admitted[k]["register"][i] = now
        /\ ~WouldAccept(k, "register")

----------------------------------------------------------------------------
(* Shape of the guest store                                                *)

\* C29: every stored guest message belongs to a conversation that exists in
\* the same session: no message is stored under a session whose conversation
\* list has no conversation with the message's conversationId.
C29_NoOrphanGuestMessage ==
    \A S \in DOMAIN guest.messages :
        \A i \in DOMAIN guest.messages[S] :
            \E j \in DOMAIN GetOrEmpty(guest.conversations, S) :
                guest.conversations[S][j].id = guest.messages[S][i].conversationId

\* C30: every sessionId that is a key of the conversation map or of the
\* message map is also a key of the lease map.
C30_StoredSessionsHaveLease ==
    (DOMAIN guest.conversations) \cup (DOMAIN guest.messages)
        \subseteq DOMAIN guest.sessionTimestamps

----------------------------------------------------------------------------
(* Deleting a conversation                                                 *)

TargetId(who, conv) == IF who.guest THEN conv ELSE parseInt(conv)

\* the conversations that stores d and g hold for who at time t, in stored
\* order for a guest; a session whose lease has expired holds nothing
ConversationsOf(d, g, t, who) ==
    IF who.guest
    THEN IF isSessionExpired(g, t, who.id) THEN <<>>
         ELSE GetOrEmpty(g.conversations, who.id)
    ELSE {c \in d.conversations : c.userId = who.id}

\* the messages of the conversations that stores d and g hold for who at
\* time t
MessagesOf(d, g, t, who) ==
    IF who.guest
    THEN IF isSessionExpired(g, t, who.id) THEN <<>>
         ELSE SelectSeq(GetOrEmpty(g.messages, who.id),
                        LAMBDA m : \E c \in Range(GetOrEmpty(g.conversations, who.id)) :
                                      c.id = m.conversationId)
    ELSE {m \in d.messages :
             \E c \in d.conversations : c.userId = who.id /\ c.id = m.conversationId}

\* l without the elements that belong to conversation id (key "id" for
\* conversations, "conversationId" for messages)
WithoutConversation(l, id, isConv, isSeq) ==
    IF ~isSeq
    THEN {x \in l : (IF isConv THEN x.id ELSE x.conversationId) # id}
    ELSE SelectSeq(l, LAMBDA x : (IF isConv THEN x.id ELSE x.conversationId) # id)

\* the messages that carry conversationId id in the stores d and g, under who
\* for a guest
StoredUnder(d, g, who, id) ==
    IF who.guest
    THEN {m \in Range(GetOrEmpty(g.messages, who.id)) : m.conversationId = id}
    ELSE {m \in d.messages : m.conversationId = id}

----------------------------------------------------------------------------
(* Expiry of a guest session and the read accessors                        *)

\* the three read accessors applied to session S and id in this state
ReadAccessors(S, id) ==
    {getGuestConversations(guest, now, S),
     getGuestConversation(guest, now, id, S),
     getGuestConversationMessages(guest, now, id, S)}

\* C24: a session is expired exactly when it has no lease entry or
\* now - lastTouchedAt is strictly greater than 24 h (at exactly 24 h it is
\* live); list-conversations, get-conversation and list-messages on an
\* expired session return empty / undefined, remove the session from the
\* conversation, message and lease maps, and create no lease.
C24_ExpiredReadsPurge ==
    \A S \in Sessions :
        /\ isSessionExpired(guest, now, S)
              <=> \/ S \notin DOMAIN guest.sessionTimestamps
                  \/ now - guest.sessionTimestamps[S] > 24 * 60 * 60 * 1000
        /\ isSessionExpired(guest, now, S) =>
              \A id \in GsIds : \A o \in ReadAccessors(S, id) :
                  /\ o.ret = <<>>
                  /\ S \notin DOMAIN o.g.conversations
                  /\ S \notin DOMAIN o.g.messages
                  /\ S \notin DOMAIN o.g.sessionTimestamps

\* some session holds conversations and messages under a lease older than
\* 24 h
C24_Witness ==
    \E S \in Sessions :
        /\ LeaseExpired(S)
        /\ GetOrEmpty(guest.conversations, S) # <<>>
        /\ GetOrEmpty(guest.messages, S) # <<>>

----------------------------------------------------------------------------
(* What a successful send has appended                                     *)

\* send r has been answered with success
Succeeded(r) == sends[r].pc = "done" /\ sends[r].status = 200

\* C22: a send answered with success has appended exactly two messages to
\* the conversation: a user message with the trimmed request content and no
\* sources, then an assistant message with the generation result's answer as
\* content and its sources in the same order; every message that enters a
\* store is one of these two of some send; and in every state only
\* assistant messages carry sources.
C22_SuccessfulSendAppendsTwo ==
    /\ [](\A r \in SendIds :
             Succeeded(r) =>
                 /\ Len(sends[r].userMessage) = 1
                 /\ Len(sends[r].assistantMessage) = 1
                 /\ LET um == sends[r].userMessage[1]
                        am == sends[r].assistantMessage[1]
                        id == TargetId(sends[r].who, sends[r].conv)
                    IN  /\ um.role = "user"
                        /\ um.conversationId = id
                        /\ um.content = Trim(sends[r].content.chars)
                        /\ um.sources = Undefined
                        /\ am.role = "assistant"
                        /\ am.conversationId = id
                        /\ am.content = RagAnswer.answer
                        /\ am.sources = Some(RagAnswer.sources)
                        /\ am.id # um.id
                        /\ am.createdAt >= um.createdAt)
    /\ [](\A m \in StoredMessages : m.sources # Undefined => m.role = "assistant")
    /\ [][\A m \in StoredMessages' \ StoredMessages :
             \E r \in SendIds : AppendedBy(r) = Some(m)]_vars

\* a send has been answered with success and both of its messages are stored
C22_Witness ==
    \E r \in SendIds :
        /\ Succeeded(r)
        /\ sends[r].content.chars # Trim(sends[r].content.chars)
        /\ sends[r].userMessage[1] \in StoredMessages
        /\ sends[r].assistantMessage[1] \in StoredMessages

----------------------------------------------------------------------------
(* Calls to the generation service                                         *)

\* send r has passed validation and the ownership checks (the one of the
\* route and, for a registered user, the one inside getConversationMessages)
\* and has persisted its user message
PassedChecks(r) ==
    IsPrefix(<<"validate", "own", "persistUser", "list">>, sends[r].trace)

----------------------------------------------------------------------------
(* Abandoned guest sessions                                                *)

\* none of the three maps has an entry for session S
Absent(S) ==
    /\ S \notin DOMAIN guest.conversations
    /\ S \notin DOMAIN guest.messages
    /\ S \notin DOMAIN guest.sessionTimestamps

\* C28: with the Reaper firing again and again, every guest session that
\* stops being accessed is eventually removed: when from some point on no
\* operation is made for session S, and time moves on past the TTL of its
\* lease, then eventually and for good none of the three maps has an entry
\* for S.
C28_AbandonedSessionRemoved ==
    \A S \in Sessions :
        /\ <>[][~GuestOperation(S)]_vars
        /\ <>[](S \in DOMAIN guest.sessionTimestamps => LeaseExpired(S))
        => <>[]Absent(S)

\* a session that holds a conversation or messages has been left alone for
\* longer than the TTL
C28_Witness ==
    \E S \in Sessions :
        /\ LeaseExpired(S)
        /\ (S \in DOMAIN guest.conversations \/ S \in DOMAIN guest.messages)
        /\ GetOrEmpty(guest.conversations, S) # <<>>

====
